---- MODULE Spec2Model ----
(***************************************************************************)
(* A model of FLeCS: the typed node/edge sets (flecs/sets.py), the cell    *)
(* population that owns the state and rate arrays (flecs/cell_population.py)*)
(* and the trajectory integrators (flecs/trajectory.py).                   *)
(*                                                                         *)
(* Tensors.  A 2-D tensor is a record [r, c, d]: shape (r, c) and the rows *)
(* d, a sequence of r sequences of length c.  The shape is kept explicitly *)
(* because a tensor of shape (0, 2) and one of shape (0, 0) differ.        *)
(* Per-edge attributes have shape (1, n_edges); the trailing axis of the   *)
(* (1, n_edges, 1) tensors made by init_param plays no part in indexing or *)
(* concatenation along axis 1 and is left out.  Floats are integers.       *)
(***************************************************************************)
EXTENDS Integers, Sequences, FiniteSets, TLC

VARIABLES
    eset,       \* the EdgeSet under mutation: its __dict__, name -> tensor
    call,       \* the last EdgeSet call: operation, arguments, outcome, EdgeSet before it
    rt,         \* progress of a get_edges / remove_edges / add_edges round trip
    raw,        \* the raw graph tables (node_data, edge_data), changed in place by a build
    raw0,       \* the raw graph tables as the data source supplied them
    pop,        \* the CellPopulation
    pcall,      \* the last call on the population: operation, arguments, outcome
    run         \* a running simulate_*_trajectory call: its arguments and locals

edgeVars == <<eset, call, rt>>
popVars == <<raw, raw0, pop, pcall>>
vars == <<eset, call, rt, raw, raw0, pop, pcall, run>>

-----------------------------------------------------------------------------
(* Bounds                                                                  *)

MaxEdges == 3
MaxId == 3
MaxRawEdges == 2
MaxPopEdges == 2
MaxGrid == 3

-----------------------------------------------------------------------------
(* Tensor operations (torch semantics, shape errors included)              *)

RECURSIVE MaskSeq(_, _)
MaskSeq(s, m) ==
    IF s = <<>> THEN <<>>
    ELSE IF Head(m) THEN <<Head(s)>> \o MaskSeq(Tail(s), Tail(m))
         ELSE MaskSeq(Tail(s), Tail(m))

RECURSIVE CountTrue(_)
CountTrue(m) ==
    IF m = <<>> THEN 0 ELSE (IF Head(m) THEN 1 ELSE 0) + CountTrue(Tail(m))

logical_not(m) == [i \in 1..Len(m) |-> ~m[i]]

Tensor(r, c, d) == [r |-> r, c |-> c, d |-> d]

\* t[m] with a boolean mask m: legal iff len(m) = t.shape[0]
CanIndexDim0(t, m) == Len(m) = t.r
IndexDim0(t, m) == Tensor(CountTrue(m), t.c, MaskSeq(t.d, m))

\* t[:, m] with a boolean mask m: legal iff len(m) = t.shape[1]
CanIndexDim1(t, m) == Len(m) = t.c
IndexDim1(t, m) == Tensor(t.r, CountTrue(m), [i \in 1..t.r |-> MaskSeq(t.d[i], m)])

\* torch.cat((a, b)): legal iff the shapes agree outside axis 0
CanCatDim0(a, b) == a.c = b.c
CatDim0(a, b) == Tensor(a.r + b.r, a.c, a.d \o b.d)

\* torch.cat((a, b), dim=1): legal iff the shapes agree outside axis 1
CanCatDim1(a, b) == a.r = b.r
CatDim1(a, b) == Tensor(a.r, a.c + b.c, [i \in 1..a.r |-> a.d[i] \o b.d[i]])

-----------------------------------------------------------------------------
(* flecs/sets.py: Set and EdgeSet                                          *)

\* Python dicts iterate in insertion order: __init__ sets edges first, then
\* the attributes in the order of attribute_dict.
AttrNames == {"weights", "sign"}
KeyOrder == <<"edges", "weights", "sign">>
Keys(dict) == SelectSeq(KeyOrder, LAMBDA k : k \in DOMAIN dict)

\* EdgeSet.__len__
EdgeSetLen(self) == self["edges"].r

\* Set.is_element_level_attr: every value here is a tensor with two axes
is_element_level_attr(self, v) == v.c = EdgeSetLen(self)

\* Set.element_level_attr_dict: over the whole __dict__, self.edges included
element_level_attr_dict(self) ==
    [k \in {n \in DOMAIN self : is_element_level_attr(self, self[n])} |-> self[k]]

\* EdgeSet.__init__ with an (n, 2) edge tensor and 1-D attributes of length
\* n, each promoted to shape (1, n).
EdgeSetInit(edges, attribute_dict) ==
    [k \in {"edges"} \cup DOMAIN attribute_dict |->
        IF k = "edges" THEN Tensor(Len(edges), 2, edges)
        ELSE Tensor(1, Len(attribute_dict[k]), <<attribute_dict[k]>>)]

\* The loop of add_edges over attribute_dict; it stops at the first failing
\* statement and keeps what the earlier iterations assigned.
RECURSIVE add_edges_loop(_, _, _, _)
add_edges_loop(self, names, edges, attribute_dict) ==
    IF names = <<>> THEN [self |-> self, err |-> "ok"]
    ELSE LET attr_name == Head(names)
             new == attribute_dict[attr_name]
             eld == element_level_attr_dict(self)
         IN  IF new.c # edges.r
                 THEN [self |-> self, err |-> "AssertionError"]
             ELSE IF attr_name \notin DOMAIN eld
                 THEN [self |-> self, err |-> "KeyError"]
             ELSE IF ~CanCatDim1(eld[attr_name], new)
                 THEN [self |-> self, err |-> "RuntimeError"]
             ELSE add_edges_loop([self EXCEPT ![attr_name] = CatDim1(eld[attr_name], new)],
                                 Tail(names), edges, attribute_dict)

\* EdgeSet.add_edges: the resulting __dict__ and how the call ended
add_edges(self, edges, attribute_dict) ==
    IF DOMAIN attribute_dict # DOMAIN element_level_attr_dict(self)
        THEN [self |-> self, err |-> "AssertionError"]
    ELSE LET looped == add_edges_loop(self, Keys(attribute_dict), edges, attribute_dict)
         IN  IF looped.err # "ok" THEN looped
             ELSE IF ~CanCatDim0(looped.self["edges"], edges)
                 THEN [self |-> looped.self, err |-> "RuntimeError"]
             ELSE [self |-> [looped.self EXCEPT !["edges"] = CatDim0(looped.self["edges"], edges)],
                   err |-> "ok"]

\* The loop of remove_edges: it runs over the items of element_level_attr_dict
\* as they were when the loop began.
RECURSIVE remove_edges_loop(_, _, _, _)
remove_edges_loop(self, names, items, to_be_kept) ==
    IF names = <<>> THEN [self |-> self, err |-> "ok"]
    ELSE LET attr_name == Head(names)
             attr_value == items[attr_name]
         IN  IF ~CanIndexDim1(attr_value, to_be_kept)
                 THEN [self |-> self, err |-> "IndexError"]
             ELSE remove_edges_loop([self EXCEPT ![attr_name] = IndexDim1(attr_value, to_be_kept)],
                                    Tail(names), items, to_be_kept)

\* EdgeSet.remove_edges
remove_edges(self, indices) ==
    LET to_be_kept == logical_not(indices)
        items == element_level_attr_dict(self)
        looped == remove_edges_loop(self, Keys(items), items, to_be_kept)
    IN  IF looped.err # "ok" THEN looped
        ELSE IF ~CanIndexDim0(looped.self["edges"], to_be_kept)
            THEN [self |-> looped.self, err |-> "IndexError"]
        ELSE [self |-> [looped.self EXCEPT !["edges"] = IndexDim0(looped.self["edges"], to_be_kept)],
              err |-> "ok"]

\* EdgeSet.get_edges (the mask has one entry per edge, so both index
\* expressions are legal)
get_edges(self, indices) ==
    LET items == element_level_attr_dict(self)
    IN  [edges |-> IndexDim0(self["edges"], indices),
         edge_attr_dict |-> [k \in DOMAIN items |-> IndexDim1(items[k], indices)]]

-----------------------------------------------------------------------------
(* flecs/sets.py: NodeSet; flecs/cell_population.py: CellPopulation        *)
(*                                                                         *)
(* An array of shape (n_cells, n, d) is modelled for one cell (n_cells     *)
(* defaults to 1 and every operation acts on each cell alike) as a         *)
(* function [0..n-1 -> [0..d-1 -> Int]].                                   *)

Ok == "ok"

SetMin(S) == CHOOSE x \in S : \A y \in S : x <= y
SetMax(S) == CHOOSE x \in S : \A y \in S : x >= y
Min2(a, b) == IF a < b THEN a ELSE b
Max2(a, b) == IF a > b THEN a ELSE b

SCALE_FACTOR == 10

\* torch.empty(shape): memory as found, here fresh (0) or stale (7)
EmptyVals == {0, 7}
torch_empty(n, d) == {[i \in 0..(n - 1) |-> [c \in 0..(d - 1) |-> g]] : g \in EmptyVals}
torch_zeros(n, d) == [i \in 0..(n - 1) |-> [c \in 0..(d - 1) |-> 0]]
torch_ones(n, d) == [i \in 0..(n - 1) |-> [c \in 0..(d - 1) |-> 1]]
Scale(k, x) == [i \in DOMAIN x |-> [c \in DOMAIN x[i] |-> k * x[i][c]]]
Plus(x, y) == [i \in DOMAIN x |-> [c \in DOMAIN x[i] |-> x[i][c] + y[i][c]]]
Minus(x, y) == [i \in DOMAIN x |-> [c \in DOMAIN x[i] |-> x[i][c] - y[i][c]]]
NumNodes(x) == Cardinality(DOMAIN x)

\* NodeSet.__init__ (no raw attributes) and NodeSet.__len__
NodeSet(idx_low, idx_high) == [cls |-> "NodeSet", idx_low |-> idx_low, idx_high |-> idx_high]
NodeSetLenNoPlusOne(ns) == ns.idx_high - ns.idx_low
NodeSetLen(ns) == ns.idx_high - ns.idx_low + 1

\* array[:, idx_low : idx_high + 1]: a slice stops at the end of the array
SliceLen(array, ns) ==
    Max2(0, Min2(ns.idx_high + 1, NumNodes(array)) - Min2(ns.idx_low, NumNodes(array)))
View(array, ns) == [j \in 0..(SliceLen(array, ns) - 1) |-> array[ns.idx_low + j]]
SameShape(x, y) ==
    /\ DOMAIN x = DOMAIN y
    /\ \A i \in DOMAIN x : DOMAIN x[i] = DOMAIN y[i]

WriteViewShort(array, ns, value) ==
    [i \in DOMAIN array |->
        IF i >= ns.idx_low /\ i < ns.idx_high THEN value[i - ns.idx_low] ELSE array[i]]

\* array[:, idx_low : idx_high + 1] = value
WriteView(array, ns, value) ==
    [i \in DOMAIN array |->
        IF i >= ns.idx_low /\ i - ns.idx_low < SliceLen(array, ns)
            THEN value[i - ns.idx_low] ELSE array[i]]

\* CellPopulation.n_nodes
RECURSIVE SumLen(_, _)
SumLen(types, node_set_dict) ==
    IF types = <<>> THEN 0
    ELSE NodeSetLen(node_set_dict[Head(types)]) + SumLen(Tail(types), node_set_dict)
n_nodes(self) == SumLen(self.node_types, self.node_set_dict)

\* The NodeSet.state / production_rate / decay_rate getters; field names the
\* array of the owning population
NodeSetGet(self, n_type, field) == View(self[field], self.node_set_dict[n_type])

\* The NodeSet.state / production_rate / decay_rate setters
NodeSetSet(self, n_type, field, value) ==
    IF ~SameShape(value, NodeSetGet(self, n_type, field))
        THEN [self |-> self, err |-> "AssertionError"]
    ELSE [self |-> [self EXCEPT ![field] = WriteView(self[field], self.node_set_dict[n_type], value)],
          err |-> Ok]

setitem_overwrite(self, key_is_tuple, key, value) ==
    IF key_is_tuple
        THEN [self |-> [self EXCEPT
                          !.edge_types = IF key \in DOMAIN self.edge_set_dict THEN @ ELSE Append(@, key),
                          !.edge_set_dict = (key :> value) @@ @],
              err |-> "ok"]
    ELSE [self |-> [self EXCEPT
                      !.node_types = IF key \in DOMAIN self.node_set_dict THEN @ ELSE Append(@, key),
                      !.node_set_dict = (key :> value) @@ @],
          err |-> "ok"]

\* CellPopulation.__setitem__; the two dicts keep their keys in insertion order
setitem(self, key_is_tuple, key, value) ==
    IF key_is_tuple
        THEN IF value.cls # "EdgeSet" \/ key \in DOMAIN self.edge_set_dict
                THEN [self |-> self, err |-> "AssertionError"]
             ELSE [self |-> [self EXCEPT !.edge_types = Append(@, key),
                                         !.edge_set_dict = @ @@ (key :> value)],
                   err |-> Ok]
    ELSE IF value.cls # "NodeSet" \/ key \in DOMAIN self.node_set_dict
            THEN [self |-> self, err |-> "AssertionError"]
         ELSE [self |-> [self EXCEPT !.node_types = Append(@, key),
                                     !.node_set_dict = @ @@ (key :> value)],
               err |-> Ok]

\* A raw table is a dict; of its entries only the reserved "idx" is modelled.
\* CellPopulation._get_node_set: the NodeSet and the table as the call leaves it
get_node_set(n_type_data) ==
    IF "idx" \notin DOMAIN n_type_data
        THEN [err |-> "KeyError", data |-> n_type_data]
    ELSE [err |-> Ok,
          value |-> NodeSet(SetMin(n_type_data["idx"]), SetMax(n_type_data["idx"])),
          data |-> [k \in DOMAIN n_type_data \ {"idx"} |-> n_type_data[k]]]

ShiftBySource(edges, low0, low1) ==
    [i \in 1..Len(edges) |-> <<edges[i][1] - low0, edges[i][2] - low0>>]

\* edges[:, 0] -= low0; edges[:, 1] -= low1
Shift(edges, low0, low1) ==
    [i \in 1..Len(edges) |-> <<edges[i][1] - low0, edges[i][2] - low1>>]

\* CellPopulation._get_edge_set: the EdgeSet and the table as the call leaves it
get_edge_set(self, e_type, e_type_data) ==
    IF "idx" \notin DOMAIN e_type_data
        THEN [err |-> "KeyError", data |-> e_type_data]
    ELSE IF e_type[1] \notin DOMAIN self.node_set_dict \/ e_type[3] \notin DOMAIN self.node_set_dict
        THEN [err |-> "KeyError", data |-> e_type_data]
    ELSE LET edges == Shift(e_type_data["idx"],
                            self.node_set_dict[e_type[1]].idx_low,
                            self.node_set_dict[e_type[3]].idx_low)
         IN  [err |-> Ok,
              value |-> [cls |-> "EdgeSet", dict |-> EdgeSetInit(edges, <<>>)],
              data |-> [k \in DOMAIN e_type_data \ {"idx"} |-> e_type_data[k]]]

\* The two loops of initialize_from_interaction_graph.  g holds the
\* population and the raw tables, which the calls change in place.
RECURSIVE init_node_sets(_, _)
init_node_sets(g, types) ==
    IF types = <<>> THEN g
    ELSE LET n_type == Head(types)
             got == get_node_set(g.node_data[n_type])
             g1 == [g EXCEPT !.node_data[n_type] = got.data]
         IN  IF got.err # Ok THEN [g1 EXCEPT !.err = got.err]
             ELSE LET set == setitem(g1.self, FALSE, n_type, got.value)
                  IN  IF set.err # Ok THEN [g1 EXCEPT !.err = set.err]
                      ELSE init_node_sets([g1 EXCEPT !.self = set.self], Tail(types))

RECURSIVE init_edge_sets(_, _)
init_edge_sets(g, types) ==
    IF types = <<>> THEN g
    ELSE LET e_type == Head(types)
             got == get_edge_set(g.self, e_type, g.edge_data[e_type])
             g1 == [g EXCEPT !.edge_data[e_type] = got.data]
         IN  IF got.err # Ok THEN [g1 EXCEPT !.err = got.err]
             ELSE LET set == setitem(g1.self, TRUE, e_type, got.value)
                  IN  IF set.err # Ok THEN [g1 EXCEPT !.err = set.err]
                      ELSE init_edge_sets([g1 EXCEPT !.self = set.self], Tail(types))

\* CellPopulation.initialize_from_interaction_graph; the raw dicts are
\* iterated in the order of their keys
initialize_from_interaction_graph(self, node_order, node_data, edge_order, edge_data) ==
    LET g0 == [self |-> self, node_data |-> node_data, edge_data |-> edge_data, err |-> Ok]
        g1 == init_node_sets(g0, node_order)
    IN  IF g1.err # Ok THEN g1 ELSE init_edge_sets(g1, edge_order)

\* CellPopulation.sample_from_state_prior_dist
sample_from_state_prior_dist(self) ==
    Scale(SCALE_FACTOR, torch_ones(NumNodes(self.state), self.per_node_state_dim))

\* CellPopulation.reset_state: the populations it can leave
reset_state(self) ==
    {[self EXCEPT !.state = sample_from_state_prior_dist(self),
                  !.production_rates = p,
                  !.decay_rates = d] :
        p \in torch_empty(NumNodes(self.production_rates), self.per_node_state_dim),
        d \in torch_empty(NumNodes(self.decay_rates), self.per_node_state_dim)}

\* CellPopulation.__init__: the outcomes [self, node_data, edge_data, err]
EmptyPopulation(per_node_state_dim) ==
    [node_types |-> <<>>, node_set_dict |-> <<>>,
     edge_types |-> <<>>, edge_set_dict |-> <<>>,
     per_node_state_dim |-> per_node_state_dim, variant |-> "CellPopulation",
     state |-> <<>>, production_rates |-> <<>>, decay_rates |-> <<>>]

CellPopulationInit(node_order, node_data, edge_order, edge_data, per_node_state_dim) ==
    LET g == initialize_from_interaction_graph(EmptyPopulation(per_node_state_dim),
                                               node_order, node_data, edge_order, edge_data)
    IN  IF g.err # Ok THEN {g}
        ELSE {[g EXCEPT !.self = r] :
                r \in UNION {reset_state([g.self EXCEPT !.state = s,
                                                        !.decay_rates = s,
                                                        !.production_rates = s]) :
                                s \in torch_empty(n_nodes(g.self), per_node_state_dim)}}

-----------------------------------------------------------------------------
(* flecs/cell_population.py: TestCellPop and ProteinRNACellPop; the        *)
(* aggregator (flecs/production.py) and the decay law (flecs/decay.py)     *)
(* they call are not part of the sources at hand and follow their          *)
(* documented contract.                                                    *)

RECURSIVE SumSeq(_)
SumSeq(s) == IF s = <<>> THEN 0 ELSE Head(s) + SumSeq(Tail(s))

Transpose(t) == Tensor(t.c, t.r, [j \in 1..t.c |-> [i \in 1..t.r |-> t.d[i][j]]])

\* x[:, :, lo:hi], the channels lo..hi-1 renumbered from 0
Channels(x, lo, hi) == [i \in DOMAIN x |-> [c \in 0..(hi - lo - 1) |-> x[i][lo + c]]]

\* SimpleConv.forward: for every edge (s, t) with weight w, w * x[:, s, :]
\* is added into out[:, t, :]; out starts at zero
RECURSIVE ScatterAdd(_, _, _, _, _)
ScatterAdd(out, x, edge_index, edge_weight, e) ==
    IF e > edge_index.c THEN out
    ELSE LET s == edge_index.d[1][e]
             t == edge_index.d[2][e]
             w == edge_weight.d[1][e]
         IN  ScatterAdd([out EXCEPT ![t] = [c \in DOMAIN out[t] |-> out[t][c] + w * x[s][c]]],
                        x, edge_index, edge_weight, e + 1)
simple_conv(tgt_nodeset_len, x, edge_index, edge_weight, d) ==
    ScatterAdd(torch_zeros(tgt_nodeset_len, d), x, edge_index, edge_weight, 1)

\* exponential_decay(cell, n_type, alpha) = alpha * cell[n_type].state
exponential_decay(self, n_type, alpha) ==
    LET x == NodeSetGet(self, n_type, "state")
    IN  [j \in DOMAIN x |-> [c \in DOMAIN x[j] |-> alpha[j][c % Cardinality(DOMAIN alpha[j])] * x[j][c]]]

\* CellPopulation.set_production_rates_to_zero
RECURSIVE zero_loop(_, _)
zero_loop(self, types) ==
    IF types = <<>> THEN self
    ELSE LET n_type == Head(types)
             shape == NodeSetGet(self, n_type, "production_rates")
         IN  zero_loop(NodeSetSet(self, n_type, "production_rates",
                                  torch_zeros(NumNodes(shape), self.per_node_state_dim)).self,
                       Tail(types))
keep_production_rates(self) == self
set_production_rates_to_zero(self) == zero_loop(self, self.node_types)

Assign(view, value) == value

\* view += value on a view of production_rates: the addition happens in
\* place, then the setter stores the view back
IAdd(view, value) == Plus(view, value)

\* view[:, :, lo:hi] += value
IAddChannels(view, lo, hi, value) ==
    [i \in DOMAIN view |-> [c \in DOMAIN view[i] |->
        IF c >= lo /\ c < hi THEN view[i][c] + value[i][c - lo] ELSE view[i][c]]]

\* self[e_type].simple_conv(x=x, edge_index=self[e_type].edges.T,
\*                          edge_weight=self[e_type].weights)
Conv(self, e_type, x, d) ==
    simple_conv(self.edge_set_dict[e_type].tgt_nodeset_len, x,
                Transpose(self.edge_set_dict[e_type].dict["edges"]),
                self.edge_set_dict[e_type].dict["weights"], d)

\* The loop of TestCellPop.compute_production_rates
RECURSIVE test_production_loop(_, _)
test_production_loop(self, types) ==
    IF types = <<>> THEN self
    ELSE LET e_type == Head(types)
             src_n_type == e_type[1]
             tgt_n_type == e_type[3]
             sum == IAdd(NodeSetGet(self, tgt_n_type, "production_rates"),
                         Conv(self, e_type, NodeSetGet(self, src_n_type, "state"),
                              self.per_node_state_dim))
         IN  test_production_loop(NodeSetSet(self, tgt_n_type, "production_rates", sum).self,
                                  Tail(types))

\* The loop of ProteinRNACellPop.compute_production_rates
RECURSIVE protein_rna_production_loop(_, _)
protein_rna_production_loop(self, types) ==
    IF types = <<>> THEN self
    ELSE LET e_type == Head(types)
             src_n_type == e_type[1]
             tgt_n_type == e_type[3]
             rna == IAddChannels(NodeSetGet(self, "gene", "production_rates"), 0, 1,
                                 Conv(self, e_type,
                                      Channels(NodeSetGet(self, "gene", "state"), 1, 2), 1))
             sum == IAdd(NodeSetGet(self, tgt_n_type, "production_rates"),
                         Conv(self, e_type, NodeSetGet(self, src_n_type, "state"),
                              self.per_node_state_dim))
         IN  IF e_type[1] = "gene" /\ e_type[3] = "gene"
                 THEN protein_rna_production_loop(
                          [self EXCEPT !.production_rates =
                              WriteView(@, self.node_set_dict["gene"], rna)], Tail(types))
             ELSE protein_rna_production_loop(
                      NodeSetSet(self, tgt_n_type, "production_rates", sum).self, Tail(types))

\* protein_prod_rate += translation_rate * state[:, :, 0:1]
protein_production(self) ==
    LET x == NodeSetGet(self, "gene", "state")
        tr == self.node_set_dict["gene"].translation_rate
        made == [j \in DOMAIN x |-> [c \in 0..0 |-> tr[j][0] * x[j][0]]]
    IN  [self EXCEPT !.production_rates =
            WriteView(@, self.node_set_dict["gene"],
                      IAddChannels(NodeSetGet(self, "gene", "production_rates"), 1, 2, made))]

\* compute_production_rates of the two population classes
compute_production_rates(self) ==
    IF self.variant = "TestCellPop"
        THEN test_production_loop(set_production_rates_to_zero(self), self.edge_types)
    ELSE protein_production(
             protein_rna_production_loop(set_production_rates_to_zero(self), self.edge_types))

\* compute_decay_rates, the same in both classes
RECURSIVE decay_loop(_, _)
decay_loop(self, types) ==
    IF types = <<>> THEN self
    ELSE LET n_type == Head(types)
         IN  decay_loop(NodeSetSet(self, n_type, "decay_rates",
                                   exponential_decay(self, n_type,
                                                     self.node_set_dict[n_type].alpha)).self,
                        Tail(types))
compute_decay_rates(self) == decay_loop(self, self.node_types)

\* CellPopulation.get_production_rates / get_decay_rates: the population
\* after the call; the array returned is its production_rates / decay_rates
get_production_rates(self) == compute_production_rates(self)
get_decay_rates(self) == compute_decay_rates(self)

get_derivatives_stale_state(self, state) ==
    LET s2 == get_production_rates(self)
        s3 == get_decay_rates(s2)
    IN  [self |-> [s3 EXCEPT !.state = state],
         value |-> Minus(s2.production_rates, s3.decay_rates)]

\* CellPopulation.get_derivatives: the population after the call and the
\* value returned
get_derivatives(self, state) ==
    LET s1 == [self EXCEPT !.state = state]
        s2 == get_production_rates(s1)
        s3 == get_decay_rates(s2)
    IN  [self |-> s3, value |-> Minus(s2.production_rates, s3.decay_rates)]

\* The rest of TestCellPop.__init__ / ProteinRNACellPop.__init__ on a built
\* population: init_param stores the sampled alpha, translation_rate and
\* weights, and every EdgeSet gets its SimpleConv(tgt_nodeset_len).
WithParams(self, variant, alpha, translation_rate, weights) ==
    [self EXCEPT
        !.variant = variant,
        !.node_set_dict = [t \in DOMAIN @ |->
            IF variant = "ProteinRNACellPop" /\ t = "gene"
                THEN @[t] @@ [alpha |-> alpha[t], translation_rate |-> translation_rate]
                ELSE @[t] @@ [alpha |-> alpha[t]]],
        !.edge_set_dict = [e \in DOMAIN @ |->
            [@[e] EXCEPT !.dict = @ @@ [weights |-> Tensor(1, Len(weights[e]), <<weights[e]>>)]]
                @@ [tgt_nodeset_len |-> NodeSetLen(self.node_set_dict[e[3]])]]]

\* Set.init_param: self.__setattr__(name, dist.sample(shape)).  A
\* distribution samples a plain torch.Tensor, and nn.Module.__setattr__ files
\* a value by its class: a Parameter in _parameters, a Module in _modules,
\* anything else in __dict__.
SampledClass == "Tensor"
module_setattr(value_class) ==
    IF value_class = "Parameter" THEN "_parameters"
    ELSE IF value_class = "Module" THEN "_modules"
    ELSE "__dict__"
init_param(name) == [name |-> name, registry |-> module_setattr(SampledClass)]

\* The names init_param has stored in a NodeSet / EdgeSet, in call order
ParamOrder == <<"alpha", "translation_rate", "weights">>
InitParams(fields) ==
    LET names == SelectSeq(ParamOrder, LAMBDA n : n \in fields)
    IN  [i \in 1..Len(names) |-> init_param(names[i])]

\* nn.Module.parameters() of a set: the entries of its _parameters, then
\* those of its submodules (an EdgeSet's simple_conv, which owns none)
set_parameters(owner, fields) ==
    LET stored == SelectSeq(InitParams(fields), LAMBDA e : e.registry = "_parameters")
    IN  [i \in 1..Len(stored) |-> <<owner, stored[i].name>>]

RECURSIVE Flatten(_)
Flatten(ss) == IF ss = <<>> THEN <<>> ELSE Head(ss) \o Flatten(Tail(ss))

\* CellPopulation.parameters: the node sets, the edge sets, then
\* named_parameters() of the population itself, whose own _parameters is
\* empty and whose sets sit in plain dicts, not in _modules
parameters(self) ==
    Flatten([i \in 1..Len(self.node_types) |->
                set_parameters(self.node_types[i],
                               DOMAIN self.node_set_dict[self.node_types[i]])])
    \o Flatten([i \in 1..Len(self.edge_types) |->
                set_parameters(self.edge_types[i],
                               DOMAIN self.edge_set_dict[self.edge_types[i]].dict)])
    \o <<>>

-----------------------------------------------------------------------------
(* Specification SpecEdge: one EdgeSet under get_edges / remove_edges /    *)
(* add_edges                                                               *)

\* Local endpoints for two-node source and target NodeSets, attribute values
EdgeRows == {<<0, 1>>, <<1, 0>>}
AttrVals == {1, 2}

SeqsUpTo(S, n) == UNION {[1..k -> S] : k \in 0..n}
Masks(n) == [1..n -> BOOLEAN]

Idle == [stage |-> "idle"]
None == [op |-> "None"]

InitEdge ==
    /\ \E edges \in SeqsUpTo(EdgeRows, MaxEdges), names \in SUBSET AttrNames :
         \E attribute_dict \in [names -> [1..Len(edges) -> AttrVals]] :
            eset = EdgeSetInit(edges, attribute_dict)
    /\ call = [op |-> "__init__", err |-> "ok"]
    /\ rt = Idle
    /\ raw = None /\ raw0 = None /\ pop = None /\ pcall = None /\ run = None

\* removed_edges, removed_attrs = E.get_edges(mask)
GetEdges(indices) ==
    /\ call' = [op |-> "get_edges", err |-> "ok", indices |-> indices]
    /\ rt' = [stage |-> "got", indices |-> indices, orig |-> eset,
              got |-> get_edges(eset, indices)]
    /\ UNCHANGED eset

\* E.remove_edges(mask)
RemoveEdges(indices) ==
    LET res == remove_edges(eset, indices)
    IN  /\ eset' = res.self
        /\ call' = [op |-> "remove_edges", err |-> res.err, indices |-> indices, pre |-> eset]
        /\ rt' = IF rt.stage = "got" /\ rt.indices = indices
                    THEN [rt EXCEPT !.stage = "removed"]
                    ELSE Idle

\* What a caller passes to add_edges: the pair get_edges returned, one new
\* edge with one value per attribute the EdgeSet was built with, or such a
\* dict whose last attribute holds one value too many.
OneEdge == {Tensor(1, 2, <<e>>) : e \in EdgeRows}
Ones(k) == Tensor(1, k, <<[i \in 1..k |-> 1]>>)
BuiltNames(self) == DOMAIN self \ {"edges"}
LastName(names) == LET ks == SelectSeq(KeyOrder, LAMBDA k : k \in names) IN ks[Len(ks)]
NewAttrs(self) ==
    {[k \in BuiltNames(self) |-> Ones(1)]}
    \cup (IF BuiltNames(self) = {} THEN {}
          ELSE {[k \in BuiltNames(self) |->
                    IF k = LastName(BuiltNames(self)) THEN Ones(2) ELSE Ones(1)]})
AddInputs(self) ==
    {[edges |-> e, attribute_dict |-> ad] : e \in OneEdge, ad \in NewAttrs(self)}
    \cup (IF rt.stage = "removed"
            THEN {[edges |-> rt.got.edges, attribute_dict |-> rt.got.edge_attr_dict]}
            ELSE {})

\* E.add_edges(edges, attribute_dict)
AddEdges(edges, attribute_dict) ==
    LET res == add_edges(eset, edges, attribute_dict)
    IN  /\ EdgeSetLen(eset) + edges.r <= MaxEdges
        /\ \A k \in DOMAIN eset : eset[k].c <= MaxEdges
        /\ eset' = res.self
        /\ call' = [op |-> "add_edges", err |-> res.err, edges |-> edges,
                    attribute_dict |-> attribute_dict, pre |-> eset]
        /\ rt' = IF /\ rt.stage = "removed"
                    /\ edges = rt.got.edges
                    /\ attribute_dict = rt.got.edge_attr_dict
                    THEN [rt EXCEPT !.stage = "added"]
                    ELSE Idle

NextEdge ==
    \/ \E indices \in Masks(EdgeSetLen(eset)) : GetEdges(indices)
    \/ \E indices \in Masks(EdgeSetLen(eset)) : RemoveEdges(indices)
    \/ \E inp \in AddInputs(eset) : AddEdges(inp.edges, inp.attribute_dict)

SpecEdge == InitEdge /\ [][NextEdge /\ UNCHANGED <<popVars, run>>]_vars

-----------------------------------------------------------------------------
(* Claims about the EdgeSet                                                *)

\* The edge list is (n_edges, 2) and every attribute the EdgeSet was built
\* with has one column per edge.
Lockstep(self) ==
    /\ self["edges"].c = 2
    /\ \A k \in BuiltNames(self) : self[k].r = 1 /\ self[k].c = self["edges"].r

\* Row i of an EdgeSet in lockstep: edge i with the value of each attribute
RowsOf(self) ==
    [i \in 1..self["edges"].r |->
        [edge |-> self["edges"].d[i], attrs |-> [k \in BuiltNames(self) |-> self[k].d[1][i]]]]

Count(s, x) == Cardinality({i \in 1..Len(s) : s[i] = x})
SameMultiset(s, t) ==
    /\ Len(s) = Len(t)
    /\ \A i \in 1..Len(s) : Count(s, s[i]) = Count(t, s[i])

\* C5: get_edges(mask), remove_edges(mask), add_edges(removed_edges,
\* removed_attrs) on an EdgeSet in lockstep succeeds and leaves the same
\* multiset of rows (edge with its attribute values) as before.
C5_RoundTrip ==
    (rt.stage = "added" /\ Lockstep(rt.orig)) =>
        /\ call.err = "ok"
        /\ Lockstep(eset)
        /\ SameMultiset(RowsOf(eset), RowsOf(rt.orig))

\* C9: after any sequence of add_edges and remove_edges calls, failed calls
\* included, the edge list is (n_edges, 2), every per-edge attribute has
\* n_edges columns, and a call that starts from such an EdgeSet leaves each
\* surviving or appended attribute column with its edge row.
C9_Lockstep ==
    /\ Lockstep(eset)
    /\ (call.op = "remove_edges" /\ Lockstep(call.pre)) =>
           RowsOf(eset) = MaskSeq(RowsOf(call.pre), logical_not(call.indices))
    /\ (call.op = "add_edges" /\ Lockstep(call.pre)) =>
           \/ RowsOf(eset) = RowsOf(call.pre)
           \/ RowsOf(eset) = RowsOf(call.pre) \o
                  [i \in 1..call.edges.r |->
                      [edge |-> call.edges.d[i],
                       attrs |-> [k \in BuiltNames(eset) |-> call.attribute_dict[k].d[1][i]]]]

\* C10: remove_edges(mask) on an EdgeSet of any size in lockstep leaves
\* exactly the edge rows i with mask[i] false, in order and two columns wide,
\* and exactly the columns i with mask[i] false of every attribute.
C10_RemoveEdges ==
    (call.op = "remove_edges" /\ Lockstep(call.pre)) =>
        /\ call.err = "ok"
        /\ eset["edges"] = Tensor(CountTrue(logical_not(call.indices)), 2,
                                  MaskSeq(call.pre["edges"].d, logical_not(call.indices)))
        /\ \A k \in BuiltNames(call.pre) :
               eset[k] = Tensor(1, CountTrue(logical_not(call.indices)),
                                <<MaskSeq(call.pre[k].d[1], logical_not(call.indices))>>)

-----------------------------------------------------------------------------
(* Specification SpecBuild: a population built from a raw graph            *)

NodeOrder == <<"compound", "gene">>
NodeTypes == {"compound", "gene"}
GG == <<"gene", "activation", "gene">>
CG == <<"compound", "activation", "gene">>
GC == <<"gene", "inhibition", "compound">>
EdgeOrder == <<GG, CG, GC>>
EdgeTypes == {GG, CG, GC}

\* Raw node tables: every node type holds at least one node, no global id
\* belongs to two types.  Raw edge tables: rows of global (tail, head) ids of
\* the edge type's source and target node types, MaxRawEdges rows in all.
RawNodeIds ==
    {ids \in [NodeTypes -> (SUBSET (0..(MaxId - 1))) \ {{}}] :
        ids["compound"] \cap ids["gene"] = {}}
RawGraph(ids, rows) ==
    [node_data |-> [t \in NodeTypes |-> [idx |-> ids[t]]],
     edge_data |-> [e \in EdgeTypes |-> [idx |-> rows[e]]]]

InitBuild ==
    /\ \E ids \in RawNodeIds :
         \E a \in SeqsUpTo(ids["gene"] \X ids["gene"], MaxRawEdges) :
           \E b \in SeqsUpTo(ids["compound"] \X ids["gene"], MaxRawEdges - Len(a)) :
             \E c \in SeqsUpTo(ids["gene"] \X ids["compound"], MaxRawEdges - Len(a) - Len(b)) :
                raw = RawGraph(ids, (GG :> a) @@ (CG :> b) @@ (GC :> c))
    /\ raw0 = raw
    /\ pop = None
    /\ pcall = None
    /\ eset = None /\ call = None /\ rt = None /\ run = None

\* CellPopulation(interaction_graph), per_node_state_dim left at its default
Construct ==
    /\ pcall = None
    /\ \E g \in CellPopulationInit(NodeOrder, raw.node_data, EdgeOrder, raw.edge_data, 1) :
         /\ pop' = g.self
         /\ raw' = [node_data |-> g.node_data, edge_data |-> g.edge_data]
         /\ pcall' = [op |-> "__init__", err |-> g.err]
    /\ UNCHANGED raw0

\* CellPopulation(interaction_graph) once more, on the raw tables as the
\* first construction left them; pop stays the first population
Rebuild ==
    /\ pcall.op = "__init__"
    /\ \E g \in CellPopulationInit(NodeOrder, raw.node_data, EdgeOrder, raw.edge_data, 1) :
         /\ raw' = [node_data |-> g.node_data, edge_data |-> g.edge_data]
         /\ pcall' = [op |-> "__init__ again", err |-> g.err, second |-> g.self]
    /\ UNCHANGED <<pop, raw0>>

NextBuild ==
    \/ Construct /\ UNCHANGED <<edgeVars, run>>
    \/ Rebuild /\ UNCHANGED <<edgeVars, run>>

SpecBuild == InitBuild /\ [][NextBuild]_vars

Built == pcall.op = "__init__" /\ pcall.err = Ok

\* The node types of the raw graph are blocks of consecutive global ids that
\* together number the nodes 0, 1, ..., N - 1.
IsBlock(S) == SetMax(S) - SetMin(S) + 1 = Cardinality(S)
ContiguousRaw(g) ==
    /\ \A t \in NodeTypes : IsBlock(g.node_data[t]["idx"])
    /\ UNION {g.node_data[t]["idx"] : t \in NodeTypes}
         = 0..(Cardinality(UNION {g.node_data[t]["idx"] : t \in NodeTypes}) - 1)

Range(ns) == ns.idx_low..ns.idx_high
RECURSIVE SumRange(_, _)
SumRange(types, node_set_dict) ==
    IF types = <<>> THEN 0
    ELSE (node_set_dict[Head(types)].idx_high - node_set_dict[Head(types)].idx_low + 1)
            + SumRange(Tail(types), node_set_dict)

Partition(self) ==
    /\ \A a, b \in DOMAIN self.node_set_dict :
          a # b => Range(self.node_set_dict[a]) \cap Range(self.node_set_dict[b]) = {}
    /\ UNION {Range(self.node_set_dict[t]) : t \in DOMAIN self.node_set_dict}
         = 0..(n_nodes(self) - 1)
    /\ n_nodes(self) = SumRange(self.node_types, self.node_set_dict)
    /\ \A t \in DOMAIN self.node_set_dict :
          NodeSetLen(self.node_set_dict[t])
            = self.node_set_dict[t].idx_high - self.node_set_dict[t].idx_low + 1

\* C1 as stated: for a population built from any raw graph the NodeSet ranges
\* are pairwise disjoint, their union is [0, n_nodes), and n_nodes is the sum
\* of idx_high - idx_low + 1 over the node types.
C1_PartitionAnyGraph == Built => Partition(pop)

\* C1 amended: the same for a raw graph whose node types are blocks of
\* consecutive global ids that together number the nodes from 0.
C1_PartitionContiguous == (Built /\ ContiguousRaw(raw0)) => Partition(pop)

C1_Witness ==
    /\ Built /\ ContiguousRaw(raw0)
    /\ \E t \in NodeTypes : pop.node_set_dict[t].idx_low > 0 /\ NodeSetLen(pop.node_set_dict[t]) > 1

\* C8: every EdgeSet built by _get_edge_set holds, row for row and in the
\* order of the raw table, (g_tail - idx_low of the source NodeSet,
\* g_head - idx_low of the target NodeSet), also when source = target.
C8_IndexRemap ==
    Built =>
        \A e \in EdgeTypes :
            pop.edge_set_dict[e].dict["edges"] =
                Tensor(Len(raw0.edge_data[e]["idx"]), 2,
                       [i \in 1..Len(raw0.edge_data[e]["idx"]) |->
                           <<raw0.edge_data[e]["idx"][i][1] - pop.node_set_dict[e[1]].idx_low,
                             raw0.edge_data[e]["idx"][i][2] - pop.node_set_dict[e[3]].idx_low>>])

C8_Witness ==
    /\ Built
    /\ Len(raw0.edge_data[GG]["idx"]) = 2
    /\ raw0.edge_data[GG]["idx"][1] # raw0.edge_data[GG]["idx"][2]
    /\ pop.node_set_dict["gene"].idx_low > 0

-----------------------------------------------------------------------------
(* Specifications SpecRates and SpecRatesRNA: the production rates of a    *)
(* TestCellPop and of a ProteinRNACellPop.  Both classes load one fixed    *)
(* graph ("test": two node types, compound before gene); small graphs of   *)
(* that layout stand for it.                                               *)

Variants == {"TestCellPop", "ProteinRNACellPop"}
Dim(variant) == IF variant = "TestCellPop" THEN 1 ELSE 2
TestIds == [compound |-> {0}, gene |-> {1, 2}]

\* Values init_param samples, and the states a population is evaluated at:
\* the prior (SCALE_FACTOR everywhere) or a state with distinct entries
WeightVals == {-1, 2}
AlphaVals == {5}
TranslationVals == {3}
Ramp(n, d) == [i \in 0..(n - 1) |-> [c \in 0..(d - 1) |-> 1 + i + n * c]]
StateInputs(n, d) == {Scale(SCALE_FACTOR, torch_ones(n, d)), Ramp(n, d)}

\* The edge tables of the stand-in graphs: max_edges rows in all
EdgeChoices(max_edges) ==
    UNION {UNION {{(GG :> a) @@ (CG :> b) @@ (GC :> c) :
                      c \in SeqsUpTo(TestIds["gene"] \X TestIds["compound"],
                                     max_edges - Len(a) - Len(b))} :
                  b \in SeqsUpTo(TestIds["compound"] \X TestIds["gene"], max_edges - Len(a))} :
           a \in SeqsUpTo(TestIds["gene"] \X TestIds["gene"], max_edges)}

\* The populations TestCellPop() / ProteinRNACellPop() can construct on the
\* graph with edge tables rows
PopulationsOn(rows, variant) ==
    {WithParams(g.self, variant,
                [t \in NodeTypes |->
                    [j \in 0..(Cardinality(TestIds[t]) - 1) |->
                        [ch \in 0..(Dim(variant) - 1) |-> al]]],
                [j \in 0..(Cardinality(TestIds["gene"]) - 1) |-> [ch \in 0..0 |-> tr]],
                (GG :> wa) @@ (CG :> wb) @@ (GC :> wc)) :
        g \in CellPopulationInit(NodeOrder, RawGraph(TestIds, rows).node_data,
                                 EdgeOrder, RawGraph(TestIds, rows).edge_data, Dim(variant)),
        al \in AlphaVals, tr \in TranslationVals,
        wa \in [1..Len(rows[GG]) -> WeightVals], wb \in [1..Len(rows[CG]) -> WeightVals],
        wc \in [1..Len(rows[GC]) -> WeightVals]}

\* The last call, the call before it, and production_rates before each
Started == [op |-> "__init__", prev_op |-> "None", prev_rates |-> <<>>, prev2_rates |-> <<>>]
Called(op) ==
    [op |-> op, prev_op |-> pcall.op,
     prev_rates |-> pop.production_rates, prev2_rates |-> pcall.prev_rates]

\* A population of the given class, at the prior state or at another one
InitPopulation(variant) ==
    /\ \E rows \in EdgeChoices(MaxPopEdges) :
         \E p \in PopulationsOn(rows, variant) :
           \E s \in StateInputs(NumNodes(p.state), p.per_node_state_dim) :
              pop = [p EXCEPT !.state = s]
    /\ pcall = Started
    /\ raw = None /\ raw0 = None
    /\ eset = None /\ call = None /\ rt = None /\ run = None

InitRates == InitPopulation("TestCellPop")
InitRatesRNA == InitPopulation("ProteinRNACellPop")

SetProductionRatesToZero ==
    /\ pop' = set_production_rates_to_zero(pop)
    /\ pcall' = Called("set_production_rates_to_zero")
    /\ UNCHANGED <<raw, raw0>>

ComputeProductionRates ==
    /\ pop' = compute_production_rates(pop)
    /\ pcall' = Called("compute_production_rates")
    /\ UNCHANGED <<raw, raw0>>

NextRates ==
    \/ SetProductionRatesToZero /\ UNCHANGED <<edgeVars, run>>
    \/ ComputeProductionRates /\ UNCHANGED <<edgeVars, run>>

SpecRates == InitRates /\ [][NextRates]_vars
SpecRatesRNA == InitRatesRNA /\ [][NextRates]_vars

\* The sum of w_e * state_S[s] over the edges (s, j) of the edge types into T
Incoming(self, e_type, j, ch) ==
    LET edges == self.edge_set_dict[e_type].dict["edges"]
        weights == self.edge_set_dict[e_type].dict["weights"]
        x == NodeSetGet(self, e_type[1], "state")
    IN  SumSeq([i \in 1..edges.r |->
                  IF edges.d[i][2] = j THEN weights.d[1][i] * x[edges.d[i][1]][ch] ELSE 0])
ExpectedProduction(self, T, j, ch) ==
    SumSeq([k \in 1..Len(self.edge_types) |->
              IF self.edge_types[k][3] = T THEN Incoming(self, self.edge_types[k], j, ch) ELSE 0])

\* C3: after TestCellPop.compute_production_rates(), production_rate[c, j]
\* of every node type T is the sum of w_e * state_S[c, s] over all edges
\* (s, j) of all edge types (S, r, T); edges with the same target add up and
\* a node without incoming edge gets 0.
C3_ProductionIsWeightedSum ==
    (pcall.op = "compute_production_rates" /\ pop.variant = "TestCellPop") =>
        \A T \in DOMAIN pop.node_set_dict :
            \A j \in 0..(NodeSetLen(pop.node_set_dict[T]) - 1) :
                \A ch \in 0..(pop.per_node_state_dim - 1) :
                    NodeSetGet(pop, T, "production_rates")[j][ch]
                        = ExpectedProduction(pop, T, j, ch)

\* Two edge types reach the same gene, another edge type has no edge
C3_Witness ==
    /\ pcall.op = "compute_production_rates" /\ pop.variant = "TestCellPop"
    /\ pop.edge_set_dict[GC].dict["edges"].r = 0
    /\ \E j \in 0..1 :
          /\ Incoming(pop, GG, j, 0) # 0
          /\ Incoming(pop, CG, j, 0) # 0
          /\ NodeSetGet(pop, "gene", "production_rates")[j][0] # 0

\* C4: a second compute_production_rates() right after a first one, with
\* state, edges and weights unchanged, leaves production_rates as the first
\* call left them, whatever they held before the first call.
C4_Idempotent ==
    (pcall.op = "compute_production_rates" /\ pcall.prev_op = "compute_production_rates") =>
        pop.production_rates = pcall.prev_rates

\* The arrays held stale values before the first call and the first call
\* produced something
C4_Witness ==
    /\ pcall.op = "compute_production_rates" /\ pcall.prev_op = "compute_production_rates"
    /\ pop.variant = "ProteinRNACellPop"
    /\ \A i \in DOMAIN pcall.prev2_rates : pcall.prev2_rates[i][0] = 7
    /\ \E i \in DOMAIN pop.production_rates : pop.production_rates[i][0] # 0

-----------------------------------------------------------------------------
(* Specification SpecView: a TestCellPop whose state is written through a  *)
(* NodeSet, reset, and replaced by get_derivatives                         *)

StateVals == {1, 3}
ViewValues(n, d) == [0..(n - 1) -> [0..(d - 1) -> StateVals]]

InitView ==
    /\ \E rows \in EdgeChoices(1) : pop \in PopulationsOn(rows, "TestCellPop")
    /\ pcall = [op |-> "__init__", err |-> Ok, replaced |-> FALSE]
    /\ raw = None /\ raw0 = None
    /\ eset = None /\ call = None /\ rt = None /\ run = None

\* self[n_type].state = value
SetNodeSetState(n_type, value) ==
    LET res == NodeSetSet(pop, n_type, "state", value)
    IN  /\ pop' = res.self
        /\ pcall' = [op |-> "state.setter", err |-> res.err, replaced |-> pcall.replaced,
                     n_type |-> n_type, value |-> value]
        /\ UNCHANGED <<raw, raw0>>

\* self.reset_state()
ResetState ==
    /\ pop' \in reset_state(pop)
    /\ pcall' = [op |-> "reset_state", err |-> Ok, replaced |-> TRUE]
    /\ UNCHANGED <<raw, raw0>>

\* self.get_derivatives(state)
GetDerivatives(state) ==
    LET res == get_derivatives(pop, state)
    IN  /\ pop' = res.self
        /\ pcall' = [op |-> "get_derivatives", err |-> Ok, replaced |-> TRUE,
                     state |-> state, value |-> res.value,
                     state_was_other |-> pop.state # state,
                     rates_were_other |-> (pop.production_rates # res.self.production_rates
                                            /\ pop.decay_rates # res.self.decay_rates)]
        /\ UNCHANGED <<raw, raw0>>

NextView ==
    \/ \E n_type \in NodeTypes :
         \E n \in {NodeSetLen(pop.node_set_dict[n_type]), NodeSetLen(pop.node_set_dict[n_type]) + 1} :
           \E value \in ViewValues(n, pop.per_node_state_dim) :
              SetNodeSetState(n_type, value) /\ UNCHANGED <<edgeVars, run>>
    \/ ResetState /\ UNCHANGED <<edgeVars, run>>
    \/ \E state \in StateInputs(NumNodes(pop.state), pop.per_node_state_dim) :
         GetDerivatives(state) /\ UNCHANGED <<edgeVars, run>>

SpecView == InitView /\ [][NextView]_vars

\* C2: after ns.state = v with v of the shape of ns.state, ns.state reads v
\* and the owner's state array holds v at the node indices idx_low..idx_high,
\* also once reset_state or get_derivatives has replaced that array.
C2_ViewRoundTrip ==
    (pcall.op = "state.setter"
        /\ NumNodes(pcall.value) = NodeSetLen(pop.node_set_dict[pcall.n_type])) =>
        /\ pcall.err = Ok
        /\ NodeSetGet(pop, pcall.n_type, "state") = pcall.value
        /\ \A i \in pop.node_set_dict[pcall.n_type].idx_low..pop.node_set_dict[pcall.n_type].idx_high :
              pop.state[i] = pcall.value[i - pop.node_set_dict[pcall.n_type].idx_low]

C2_Witness ==
    /\ pcall.op = "state.setter" /\ pcall.err = Ok /\ pcall.replaced
    /\ pcall.n_type = "gene"
    /\ pop.state[2][0] = 3 /\ pop.state[1][0] = 1 /\ pop.state[0][0] = SCALE_FACTOR

\* C12: get_derivatives(s) makes s the population's state and returns
\* production_rates - decay_rates, both arrays recomputed from s during the
\* call: the production rates are the weighted sums of s over the incoming
\* edges, the decay rates are alpha * s, whatever state and rate arrays the
\* population held before.
C12_Derivatives ==
    pcall.op = "get_derivatives" =>
        /\ pop.state = pcall.state
        /\ pcall.value = Minus(pop.production_rates, pop.decay_rates)
        /\ \A T \in DOMAIN pop.node_set_dict :
             \A j \in 0..(NodeSetLen(pop.node_set_dict[T]) - 1) :
               \A ch \in 0..(pop.per_node_state_dim - 1) :
                 LET i == pop.node_set_dict[T].idx_low + j
                     at_s == [pop EXCEPT !.state = pcall.state]
                 IN  /\ pop.production_rates[i][ch] = ExpectedProduction(at_s, T, j, ch)
                     /\ pop.decay_rates[i][ch] =
                            pop.node_set_dict[T].alpha[j][0] * pcall.state[i][ch]
                     /\ pcall.value[i][ch] =
                            ExpectedProduction(at_s, T, j, ch)
                              - pop.node_set_dict[T].alpha[j][0] * pcall.state[i][ch]

C12_Witness ==
    /\ pcall.op = "get_derivatives"
    /\ pcall.state_was_other /\ pcall.rates_were_other
    /\ \E i \in DOMAIN pcall.value : pcall.value[i][0] > 0
    /\ \E i \in DOMAIN pcall.value : pcall.value[i][0] < 0

-----------------------------------------------------------------------------
(* trajectory.py: the Euler and the tau-leaping integrators                *)

euler_step_unit_tau(state, tau, derivatives) == Plus(state, derivatives)

\* cell.state += tau * cell.get_derivatives(cell.state): the new state array
euler_step(state, tau, derivatives) == Plus(state, Scale(tau, derivatives))

relu_identity(x) == x

\* F.relu
relu(x) == [i \in DOMAIN x |-> [c \in DOMAIN x[i] |-> Max2(x[i][c], 0)]]

\* cell.state += poisson(...) - poisson(...); cell.state = F.relu(cell.state)
tau_leap_step(state, production_draw, decay_draw) ==
    relu(Plus(state, Minus(production_draw, decay_draw)))

\* flecs.cell.Cell.get_production_rates(state) / get_decay_rates(state): the
\* cell takes the state it is evaluated at, as get_derivatives does.
Cell_rates(self, state) ==
    LET s1 == [self EXCEPT !.state = state]
        s2 == get_production_rates(s1)
        s3 == get_decay_rates(s2)
    IN  [self |-> s3, err |-> Ok]

\* cell.get_production_rates(cell.state); cell.get_decay_rates(cell.state).
\* CellPopulation.get_production_rates(self) / get_decay_rates(self) take no
\* argument, and the call with one raises TypeError.
cell_rates(cell_cls, self, state) ==
    IF cell_cls = "CellPopulation"
        THEN [self |-> self, err |-> "TypeError"]
        ELSE Cell_rates(self, state)

\* torch.poisson(rates): a negative rate is rejected
CanPoisson(rates) == \A i \in DOMAIN rates : \A c \in DOMAIN rates[i] : rates[i][c] >= 0

\* torch.poisson(rates): the draws; a rate of zero draws zero
PoissonVals == {0, 4}
poisson(rates) ==
    {x \in [DOMAIN rates -> [0..(Cardinality(DOMAIN rates[0]) - 1) -> PoissonVals]] :
        \A i \in DOMAIN rates : \A c \in DOMAIN rates[i] : rates[i][c] = 0 => x[i][c] = 0}

TauVals == {1, 2}
RECURSIVE GridsOfLen(_)
GridsOfLen(k) ==
    IF k = 0 THEN {<<>>}
    ELSE IF k = 1 THEN {<<0>>}
    ELSE {Append(g, g[Len(g)] + tau) : g \in GridsOfLen(k - 1), tau \in TauVals}
TimeGrids == UNION {GridsOfLen(k) : k \in 0..MaxGrid}

CellClasses == {"Cell", "CellPopulation"}
TrajStates(n, d) == {Ramp(n, d), Scale(-1, Ramp(n, d))}

InitTrajectory(fn, classes) ==
    /\ \E rows \in EdgeChoices(1) :
         \E p \in PopulationsOn(rows, "TestCellPop") :
           \E s \in TrajStates(NumNodes(p.state), p.per_node_state_dim) :
              pop = [p EXCEPT !.state = s]
    /\ \E time_range \in TimeGrids : \E cell_cls \in classes :
         run = [fn |-> fn, cell_cls |-> cell_cls, time_range |-> time_range,
                pc |-> "called", i |-> 0, trajectory |-> <<>>, history |-> <<>>,
                err |-> Ok, state0 |-> pop.state]
    /\ pcall = None /\ raw = None /\ raw0 = None
    /\ eset = None /\ call = None /\ rt = None

\* trajectory = [copy.deepcopy(cell.state[None, :, :])]
Begin ==
    /\ run.pc = "called"
    /\ run' = [run EXCEPT !.pc = "loop", !.i = 1, !.trajectory = <<pop.state>>]
    /\ UNCHANGED pop

\* return torch.cat(trajectory)
Return ==
    /\ run.pc = "loop"
    /\ run.i >= Len(run.time_range)
    /\ run' = [run EXCEPT !.pc = "returned"]
    /\ UNCHANGED pop

\* one pass of the loop of simulate_deterministic_trajectory_euler_steps
EulerStep ==
    /\ run.pc = "loop"
    /\ run.i < Len(run.time_range)
    /\ LET tau == run.time_range[run.i + 1] - run.time_range[run.i]
           res == get_derivatives(pop, pop.state)
           new == euler_step(pop.state, tau, res.value)
       IN  /\ pop' = [res.self EXCEPT !.state = new]
           /\ run' = [run EXCEPT !.i = @ + 1,
                                 !.trajectory = Append(@, new),
                                 !.history = Append(@, [tau |-> tau, derivatives |-> res.value])]

\* one pass of the loop of simulate_stochastic_trajectory
TauLeapStep ==
    /\ run.pc = "loop"
    /\ run.i < Len(run.time_range)
    /\ LET tau == run.time_range[run.i + 1] - run.time_range[run.i]
           res == cell_rates(run.cell_cls, pop, pop.state)
           production_rates == Scale(tau, res.self.production_rates)
           decay_rates == Scale(tau, res.self.decay_rates)
       IN  IF res.err # Ok
             THEN /\ pop' = res.self
                  /\ run' = [run EXCEPT !.pc = "raised", !.err = res.err]
           ELSE IF ~(CanPoisson(production_rates) /\ CanPoisson(decay_rates))
             THEN /\ pop' = res.self
                  /\ run' = [run EXCEPT !.pc = "raised", !.err = "RuntimeError"]
           ELSE \E production_draw \in poisson(production_rates) :
                  \E decay_draw \in poisson(decay_rates) :
                    LET new == tau_leap_step(pop.state, production_draw, decay_draw)
                    IN  /\ pop' = [res.self EXCEPT !.state = new]
                        /\ run' = [run EXCEPT
                                     !.i = @ + 1,
                                     !.trajectory = Append(@, new),
                                     !.history = Append(@, [before |-> pop.state,
                                                            production_draw |-> production_draw,
                                                            decay_draw |-> decay_draw])]

InitEuler == InitTrajectory("simulate_deterministic_trajectory_euler_steps", {"CellPopulation"})
NextEuler ==
    \/ Begin /\ UNCHANGED <<edgeVars, raw, raw0, pcall>>
    \/ EulerStep /\ UNCHANGED <<edgeVars, raw, raw0, pcall>>
    \/ Return /\ UNCHANGED <<edgeVars, raw, raw0, pcall>>
SpecEuler == InitEuler /\ [][NextEuler]_vars

InitTau == InitTrajectory("simulate_stochastic_trajectory", CellClasses)
NextTau ==
    \/ Begin /\ UNCHANGED <<edgeVars, raw, raw0, pcall>>
    \/ TauLeapStep /\ UNCHANGED <<edgeVars, raw, raw0, pcall>>
    \/ Return /\ UNCHANGED <<edgeVars, raw, raw0, pcall>>
SpecTau == InitTau /\ [][NextTau]_vars

Returned == run.pc = "returned"

\* Record i is record i-1 plus tau times the derivatives get_derivatives
\* returned for record i-1, which are the derivatives of the population at
\* that state; record 0 is the state before the loop.
EulerRecurrence ==
    /\ run.trajectory[1] = run.state0
    /\ \A i \in 1..(Len(run.trajectory) - 1) :
          /\ run.history[i].tau = run.time_range[i + 1] - run.time_range[i]
          /\ run.history[i].derivatives = get_derivatives(pop, run.trajectory[i]).value
          /\ run.trajectory[i + 1] =
                Plus(run.trajectory[i], Scale(run.history[i].tau, run.history[i].derivatives))

\* A step of the loop leaves the records already taken as they are
RecordsKept ==
    run.pc = "loop" =>
        /\ Len(run'.trajectory) >= Len(run.trajectory)
        /\ SubSeq(run'.trajectory, 1, Len(run.trajectory)) = run.trajectory

C6_EmptyGrid == ~(Returned /\ run.time_range = <<>> /\ Len(run.trajectory) = 1)

NonNegative(x) == \A i \in DOMAIN x : \A c \in DOMAIN x[i] : x[i][c] >= 0

\* C7 as stated: every entry of every record of the trajectory the
\* tau-leaping integrator returns is >= 0, for every initial state and
\* every pair of Poisson draws.
C7_NonNegative ==
    Returned => \A i \in 1..Len(run.trajectory) : NonNegative(run.trajectory[i])

\* C7 amended: every entry of every record after the first is >= 0, for
\* every initial state and every pair of Poisson draws; the first record is
\* the initial state as it was given, clamped by nothing.
C7_NonNegativeAfterFirst ==
    run.pc \in {"loop", "returned", "raised"} =>
        /\ run.trajectory[1] = run.state0
        /\ \A i \in 2..Len(run.trajectory) :
              /\ NonNegative(run.trajectory[i])
              /\ run.trajectory[i] =
                    relu(Plus(run.history[i - 1].before,
                              Minus(run.history[i - 1].production_draw,
                                    run.history[i - 1].decay_draw)))

C7_Witness ==
    /\ Returned
    /\ Len(run.trajectory) = 3
    /\ \E k \in 1..2 : \E i \in DOMAIN run.state0 :
          /\ run.history[k].decay_draw[i][0] >
                run.history[k].before[i][0] + run.history[k].production_draw[i][0]
          /\ run.trajectory[k + 1][i][0] = 0
    /\ \E i \in DOMAIN run.state0 : run.history[2].production_draw[i][0] > 0

\* A negative initial state is returned as the first record (negated: never reached)
C7_NegativeFirstRecord ==
    ~(Returned /\ \E i \in DOMAIN run.state0 : run.trajectory[1][i][0] < 0)

-----------------------------------------------------------------------------
(* Specification SpecPop: a TestCellPop whose EdgeSets are mutated, whose  *)
(* sets are registered again, and whose parameters are enumerated          *)

InitPop ==
    /\ \E rows \in EdgeChoices(1) : pop \in PopulationsOn(rows, "TestCellPop")
    /\ pcall = [op |-> "__init__", err |-> Ok]
    /\ raw = None /\ raw0 = None
    /\ eset = None /\ call = None /\ rt = None /\ run = None

TotalPopEdges(self) ==
    SumSeq([i \in 1..Len(self.edge_types) |->
                EdgeSetLen(self.edge_set_dict[self.edge_types[i]].dict)])

\* What a caller passes to add_edges of an EdgeSet of the population: one
\* edge of local (tail, head) indices and its weight
NewEdgeRows == {<<0, 0>>, <<1, 1>>, <<2, 0>>}
NewWeights == {[weights |-> Tensor(1, 1, <<<<w>>>>)] : w \in {2}}

\* self[e_type].add_edges(edges, attribute_dict)
PopAddEdges(e_type, edges, attribute_dict) ==
    LET res == add_edges(pop.edge_set_dict[e_type].dict, edges, attribute_dict)
    IN  /\ TotalPopEdges(pop) < MaxPopEdges
        /\ pop' = [pop EXCEPT !.edge_set_dict[e_type].dict = res.self]
        /\ pcall' = [op |-> "add_edges", err |-> res.err, e_type |-> e_type, edges |-> edges]
        /\ UNCHANGED <<raw, raw0>>

\* self[e_type].remove_edges(indices)
PopRemoveEdges(e_type, indices) ==
    LET res == remove_edges(pop.edge_set_dict[e_type].dict, indices)
    IN  /\ pop' = [pop EXCEPT !.edge_set_dict[e_type].dict = res.self]
        /\ pcall' = [op |-> "remove_edges", err |-> res.err, e_type |-> e_type,
                     indices |-> indices]
        /\ UNCHANGED <<raw, raw0>>

\* list(self.parameters())
Parameters ==
    /\ pcall' = [op |-> "parameters", err |-> Ok, value |-> parameters(pop)]
    /\ UNCHANGED <<pop, raw, raw0>>

\* Keys and values a caller registers: the node and edge types of the
\* population, one more of each, a NodeSet and an EdgeSet
NewNodeType == "protein"
NewEdgeType == <<"gene", "binding", "gene">>
NodeKeys == NodeTypes \cup {NewNodeType}
EdgeKeys == EdgeTypes \cup {NewEdgeType}
ItemValues == {NodeSet(0, 0), [cls |-> "EdgeSet", dict |-> EdgeSetInit(<<>>, <<>>)]}

\* self[key] = value; key_is_tuple is type(key) is tuple
SetItem(key_is_tuple, key, value) ==
    LET res == setitem(pop, key_is_tuple, key, value)
    IN  /\ pop' = res.self
        /\ pcall' = [op |-> "__setitem__", err |-> res.err, key_is_tuple |-> key_is_tuple,
                     key |-> key, value |-> value,
                     pre_nodes |-> pop.node_set_dict, pre_edges |-> pop.edge_set_dict]
        /\ UNCHANGED <<raw, raw0>>

NextPop ==
    \/ Parameters /\ UNCHANGED <<edgeVars, run>>
    \/ \E e_type \in EdgeTypes : \E row \in NewEdgeRows : \E attribute_dict \in NewWeights :
         PopAddEdges(e_type, Tensor(1, 2, <<row>>), attribute_dict) /\ UNCHANGED <<edgeVars, run>>
    \/ \E e_type \in EdgeTypes :
         \E indices \in Masks(EdgeSetLen(pop.edge_set_dict[e_type].dict)) :
           PopRemoveEdges(e_type, indices) /\ UNCHANGED <<edgeVars, run>>

SpecPop == InitPop /\ [][NextPop]_vars

\* Specification SpecItems: sets are registered on a built TestCellPop
NextItems ==
    \/ \E key \in NodeKeys : \E value \in ItemValues :
         SetItem(FALSE, key, value) /\ UNCHANGED <<edgeVars, run>>
    \/ \E key \in EdgeKeys : \E value \in ItemValues :
         SetItem(TRUE, key, value) /\ UNCHANGED <<edgeVars, run>>

SpecItems == InitPop /\ [][NextItems]_vars

\* Every edge of the EdgeSet of (src, rel, dst) is a (tail, head) pair with
\* the tail in [0, len(src NodeSet)) and the head in [0, len(dst NodeSet))
EdgesInRange(self, e_type) ==
    LET edges == self.edge_set_dict[e_type].dict["edges"]
    IN  /\ edges.c = 2
        /\ \A i \in 1..edges.r :
              /\ edges.d[i][1] \in 0..(NodeSetLen(self.node_set_dict[e_type[1]]) - 1)
              /\ edges.d[i][2] \in 0..(NodeSetLen(self.node_set_dict[e_type[3]]) - 1)

\* C11: in every state of a population reached by construction from a raw
\* graph and any sequence of add_edges / remove_edges on its EdgeSets, every
\* edge has its tail in [0, len(src NodeSet)) and its head in
\* [0, len(dst NodeSet)).
C11_EdgesInRange == \A e_type \in EdgeTypes : EdgesInRange(pop, e_type)

\* The same after construction alone: the shift by idx_low puts every raw
\* edge in range
C11_InRangeWhenBuilt == pcall.op = "__init__" => C11_EdgesInRange

\* Every tensor init_param created, owner by owner: the node sets in
\* registration order, then the edge sets in registration order
LearnableTensors(self) ==
    Flatten([i \in 1..Len(self.node_types) |->
                LET ps == InitParams(DOMAIN self.node_set_dict[self.node_types[i]])
                IN  [k \in 1..Len(ps) |-> <<self.node_types[i], ps[k].name>>]])
    \o Flatten([i \in 1..Len(self.edge_types) |->
                LET ps == InitParams(DOMAIN self.edge_set_dict[self.edge_types[i]].dict)
                IN  [k \in 1..Len(ps) |-> <<self.edge_types[i], ps[k].name>>]])

\* C13: CellPopulation.parameters() yields every learnable tensor of every
\* NodeSet (each one init_param created included), of every EdgeSet and of
\* the population: node-set parameters in type-registration order, then
\* edge-set parameters in type-registration order, then the population's own.
C13_ParametersListed ==
    pcall.op = "parameters" => pcall.value = LearnableTensors(pop)

\* The key is not registered yet and the value is of the key's kind
NewAndMatching(key_is_tuple, key, value, nodes, edges) ==
    IF key_is_tuple
        THEN value.cls = "EdgeSet" /\ key \notin DOMAIN edges
        ELSE value.cls = "NodeSet" /\ key \notin DOMAIN nodes

\* The sets registered before are still registered, each as it was
Kept(before, after) ==
    \A k \in DOMAIN before : k \in DOMAIN after /\ after[k] = before[k]

\* C14: population[key] = value succeeds exactly when key is new and value
\* is of the matching kind, and then registers value under key; otherwise
\* it fails and leaves the node-set mapping and the edge-set mapping as they
\* were; in both cases no set registered before is replaced.
C14_SetItem ==
    pcall.op = "__setitem__" =>
        /\ Kept(pcall.pre_nodes, pop.node_set_dict)
        /\ Kept(pcall.pre_edges, pop.edge_set_dict)
        /\ IF NewAndMatching(pcall.key_is_tuple, pcall.key, pcall.value,
                             pcall.pre_nodes, pcall.pre_edges)
             THEN /\ pcall.err = Ok
                  /\ IF pcall.key_is_tuple
                       THEN /\ pop.edge_set_dict[pcall.key] = pcall.value
                            /\ pop.node_set_dict = pcall.pre_nodes
                       ELSE /\ pop.node_set_dict[pcall.key] = pcall.value
                            /\ pop.edge_set_dict = pcall.pre_edges
             ELSE /\ pcall.err # Ok
                  /\ pop.node_set_dict = pcall.pre_nodes
                  /\ pop.edge_set_dict = pcall.pre_edges

\* An edge type registered after construction is registered a second time,
\* with a value of the right kind
C14_Witness ==
    /\ pcall.op = "__setitem__" /\ pcall.err # Ok
    /\ NewEdgeType \in DOMAIN pop.edge_set_dict
    /\ pcall.key_is_tuple
    /\ pcall.key = NewEdgeType /\ pcall.value.cls = "EdgeSet"

-----------------------------------------------------------------------------
(* Claims about simulate_stochastic_trajectory on a CellPopulation         *)

\* C15: on an object whose get_production_rates() and get_decay_rates() are
\* those of CellPopulation, and a time grid of k >= 1 points,
\* simulate_stochastic_trajectory does not raise, and what it returns is k
\* records taken over k - 1 steps.
C15_RunsToCompletion ==
    (run.cell_cls = "CellPopulation" /\ Len(run.time_range) >= 1) =>
        /\ run.pc # "raised"
        /\ Returned =>
              /\ Len(run.trajectory) = Len(run.time_range)
              /\ Len(run.history) = Len(run.time_range) - 1

\* The same for the grid of one point, where no step is taken
C15_SinglePoint ==
    (run.cell_cls = "CellPopulation" /\ Len(run.time_range) = 1) =>
        /\ run.pc # "raised"
        /\ Returned => Len(run.trajectory) = 1

-----------------------------------------------------------------------------
(* Claims about the raw tables after a construction                        *)

\* C16: building a population leaves the raw tables it was given as they
\* were, reserved idx entries with the original global ids included, so a
\* second population built from the same tables has the same NodeSet ranges
\* and the same local edge endpoints as the first.
C16_RawTablesKept ==
    /\ Built => raw = raw0
    /\ pcall.op = "__init__ again" =>
          /\ pcall.err = Ok
          /\ pcall.second.node_set_dict = pop.node_set_dict
          /\ pcall.second.edge_set_dict = pop.edge_set_dict

\* The second construction ends with KeyError (negated: never reached)
C16_SecondBuildFails == ~(pcall.op = "__init__ again" /\ pcall.err = "KeyError")

====
